---- MODULE Spec2Model ----
(***************************************************************************)
(* Model of with_gui.py: schedule_task and its helpers, which translate a  *)
(* task request into schtasks command lines.                               *)
(*                                                                         *)
(* Texts that the program parses or formats character by character (the    *)
(* duration text, the /du and /st values) are sequences of one-character   *)
(* strings.  Other texts (names, paths, tool output) are opaque strings.   *)
(* A timedelta is an integer number of tenths of a second.                 *)
(***************************************************************************)
EXTENDS Integers, Sequences, FiniteSets, TLC

VARIABLES tasks, installed, pc, req, existing, queries, cmds, result, msg,
          readAt, calls, fmtIn, fmtOut

vars == <<tasks, installed, pc, req, existing, queries, cmds, result, msg,
          readAt, calls, fmtIn, fmtOut>>

\* ------------------------------------------------------------------ bounds
MaxCalls == 2        \* calls of schedule_task made by one invoker
MaxElapsed == 2      \* seconds the query may take before the clock is read
MaxHours == 30       \* hour component of generated duration texts
MaxMinutes == 90     \* minute component of generated duration texts
MaxDays == 1         \* day component of generated duration texts

\* ------------------------------------------------------- text primitives
Digits == <<"0", "1", "2", "3", "4", "5", "6", "7", "8", "9">>

IsDigit(c) == \E i \in 1..10 : Digits[i] = c

DigitVal(c) == (CHOOSE i \in 1..10 : Digits[i] = c) - 1

\* \w of the regular expression: letters and digits of the texts used here
WordChars == {Digits[i] : i \in 1..10} \cup
             {"P", "T", "Y", "M", "W", "D", "H", "S", "h", "o", "u", "r", "s"}

RECURSIVE NatStr(_)
\* str(n) for n >= 0
NatStr(n) == IF n < 10 THEN <<Digits[n + 1]>>
             ELSE NatStr(n \div 10) \o <<Digits[(n % 10) + 1]>>

\* str(n)
IntStr(n) == IF n < 0 THEN <<"-">> \o NatStr(0 - n) ELSE NatStr(n)

\* format(n, "02"): sign-aware zero padding to a total width of two
Pad2(n) == IF n < 0 THEN <<"-">> \o NatStr(0 - n)
           ELSE IF n < 10 THEN <<"0">> \o NatStr(n)
           ELSE NatStr(n)

RECURSIVE Join(_)
\* the opaque string spelled by a character sequence
Join(s) == IF s = <<>> THEN "" ELSE Head(s) \o Join(Tail(s))

\* Python's floor division and modulo by a positive divisor
FloorDiv(a, b) == a \div b

PyMod(a, b) == a % b

\* int(x) of a float given in tenths: truncation toward zero
TruncTenths(x) == IF x >= 0 THEN x \div 10 ELSE 0 - ((0 - x) \div 10)

\* ------------------------------------------------ isodate.parse_duration
RECURSIVE DigitsEnd(_, _)
\* first position at or after i that does not hold a digit
DigitsEnd(s, i) == IF i <= Len(s) /\ IsDigit(s[i]) THEN DigitsEnd(s, i + 1) ELSE i

RECURSIVE DigitsVal(_, _, _)
\* value of the digits s[i..j-1]
DigitsVal(s, i, j) == IF i >= j THEN 0
                      ELSE DigitsVal(s, i, j - 1) * 10 + DigitVal(s[j - 1])

RECURSIVE Pow10(_)
Pow10(k) == IF k = 0 THEN 1 ELSE 10 * Pow10(k - 1)

\* [0-9]+([,.][0-9]+)? at position i: ok, next position, numerator, denominator
ReadNumber(s, i) ==
    LET e == DigitsEnd(s, i) IN
    IF e = i THEN [ok |-> FALSE, next |-> i, num |-> 0, den |-> 1]
    ELSE IF e <= Len(s) /\ s[e] \in {".", ","} /\ DigitsEnd(s, e + 1) > e + 1
         THEN LET f == DigitsEnd(s, e + 1) IN
              [ok |-> TRUE, next |-> f,
               num |-> DigitsVal(s, i, e) * Pow10(f - e - 1) + DigitsVal(s, e + 1, f),
               den |-> Pow10(f - e - 1)]
         ELSE [ok |-> TRUE, next |-> e, num |-> DigitsVal(s, i, e), den |-> 1]

\* the letter that ends a group of the regular expression
GroupLetter(g) == CASE g = "years" -> "Y"
                    [] g = "months" -> "M"
                    [] g = "weeks" -> "W"
                    [] g = "days" -> "D"
                    [] g = "hours" -> "H"
                    [] g = "minutes" -> "M"
                    [] OTHER -> "S"

\* tenths of a second in one unit of a timedelta component
GroupTenths(g) == CASE g = "weeks" -> 6048000
                    [] g = "days" -> 864000
                    [] g = "hours" -> 36000
                    [] g = "minutes" -> 600
                    [] g = "seconds" -> 10
                    [] OTHER -> 0

RECURSIVE MatchGroups(_, _, _, _, _)
\* the optional groups "number letter" of the regular expression, in order;
\* acc: position reached, tenths of a second, and whether a calendar
\* component (years, months) is non-zero
MatchGroups(s, i, groups, k, acc) ==
    IF k > Len(groups) THEN [acc EXCEPT !.next = i]
    ELSE LET n == ReadNumber(s, i) IN
         IF n.ok /\ n.next <= Len(s) /\ s[n.next] = GroupLetter(groups[k])
         THEN MatchGroups(s, n.next + 1, groups, k + 1,
                [acc EXCEPT !.tenths = @ + (n.num * GroupTenths(groups[k])) \div n.den,
                            !.calendar = @ \/ (groups[k] \in {"years", "months"} /\ n.num # 0)])
         ELSE MatchGroups(s, i, groups, k + 1, acc)

\* isodate.parse_duration on the texts of the regular-expression format
\* (the alternative PYYYYMMDDThhmmss format is outside the texts used here).
\* kind: "timedelta" (with tenths), "Duration" (years or months), "error"
IsoParse(s) ==
    LET neg   == Len(s) >= 1 /\ s[1] = "-"
        signd == Len(s) >= 1 /\ s[1] \in {"-", "+"}
        p     == IF signd THEN 2 ELSE 1
        bad   == [kind |-> "error", tenths |-> 0]
    IN IF ~(p < Len(s) /\ s[p] = "P" /\ s[p + 1] \in WordChars) THEN bad
       ELSE LET d == MatchGroups(s, p + 1, <<"years", "months", "weeks", "days">>, 1,
                               [next |-> p + 1, tenths |-> 0, calendar |-> FALSE])
                t == IF d.next <= Len(s) /\ s[d.next] = "T"
                     THEN MatchGroups(s, d.next + 1, <<"hours", "minutes", "seconds">>, 1, d)
                     ELSE d
            IN IF t.next # Len(s) + 1 THEN bad
               ELSE IF t.calendar THEN [kind |-> "Duration", tenths |-> 0]
               ELSE [kind |-> "timedelta",
                     tenths |-> IF neg THEN 0 - t.tenths ELSE t.tenths]

\* parse_iso_duration without the isinstance check: a Duration of years or
\* months passes as an empty timedelta
parse_iso_duration_NoTypeCheck(duration_str) ==
    LET r == IsoParse(duration_str) IN
    IF r.kind \in {"timedelta", "Duration"}
    THEN [ok |-> TRUE, tenths |-> r.tenths, error |-> <<>>]
    ELSE [ok |-> FALSE, tenths |-> 0,
          error |-> <<"Error parsing duration: ",
                      "Unable to parse duration string '", Join(duration_str), "'">>]

\* parse_iso_duration: a timedelta, or the ValueError's text
parse_iso_duration(duration_str) ==
    LET r == IsoParse(duration_str) IN
    CASE r.kind = "timedelta" ->
           [ok |-> TRUE, tenths |-> r.tenths, error |-> <<>>]
      [] r.kind = "Duration" ->
           [ok |-> FALSE, tenths |-> 0,
            error |-> <<"Error parsing duration: ", "Invalid duration format.">>]
      [] OTHER ->
           [ok |-> FALSE, tenths |-> 0,
            error |-> <<"Error parsing duration: ",
                        "Unable to parse duration string '", Join(duration_str), "'">>]

\* hours and minutes computed by format_duration_for_schtasks
DurationHours(tenths) == FloorDiv(TruncTenths(tenths), 3600)

DurationMinutes(tenths) == FloorDiv(PyMod(TruncTenths(tenths), 3600), 60)

\* the formatting with the hours wrapped at a day
format_duration_for_schtasks_Wrap24(tenths) ==
    Pad2(DurationHours(tenths) % 24) \o <<":">> \o Pad2(DurationMinutes(tenths))

format_duration_for_schtasks(tenths) ==
    Pad2(DurationHours(tenths)) \o <<":">> \o Pad2(DurationMinutes(tenths))

\* ------------------------------------------------------------ the clock
DaySeconds == 86400

\* strftime("%H:%M") of the time of day of instant t (seconds)
StrfHM(t) == Pad2((t \div 3600) % 24) \o <<":">> \o Pad2((t \div 60) % 60)

\* the start time without the added minute
start_time_NoOffset(t) == StrfHM(t)

\* (datetime.now() + timedelta(minutes=1)).strftime("%H:%M"), now read at t
start_time(t) == StrfHM(t + 60)

\* ------------------------------------------------- the schtasks tool
\* keys of the details dictionary and the line prefixes that fill them
DetailKeys == {"Task Name", "Command Path", "Interval", "Duration"}

LinePrefix(key) == CASE key = "Task Name" -> "Task Name:"
                     [] key = "Command Path" -> "Task To Run:"
                     [] key = "Interval" -> "Repeat: Every"
                     [] OTHER -> "Duration:"

\* one line of the LIST output: its prefix and the words after it; a line
\* whose prefix the tool prints in another form carries the prefix "Other:"
Line(key, printed, words) ==
    [prefix |-> IF key \in printed THEN LinePrefix(key) ELSE "Other:",
     words |-> words]

\* schtasks /query /tn name /fo LIST /v: exit code, stdout and stderr.
\* printed is the set of keys whose lines the tool prints with the prefixes
\* above; fault is a failure of the tool for a reason other than absence
SchtasksQuery(store, name, printed, fault) ==
    IF fault
    THEN [rc |-> 1, stdout |-> <<>>, stderr |-> "ERROR: Access is denied."]
    ELSE IF ~(\E t \in store : t.tn = name)
    THEN [rc |-> 1, stdout |-> <<>>,
          stderr |-> "ERROR: The system cannot find the file specified."]
    ELSE LET t == CHOOSE t \in store : t.tn = name IN
         [rc |-> 0, stderr |-> "",
          stdout |-> << [prefix |-> "HostName:", words |-> <<"HOST">>],
                        Line("Task Name", printed, <<t.tn>>),
                        Line("Command Path", printed, <<t.tr>>),
                        Line("Interval", printed, <<t.ri, "Minute(s)">>),
                        Line("Duration", printed, <<t.du>>) >>]

\* the /du value the tool accepts: digits, a colon, two digits below 60
DuAccepted(du) ==
    /\ Len(du) >= 5
    /\ du[Len(du) - 2] = ":"
    /\ \A i \in 1..Len(du) : i # Len(du) - 2 => IsDigit(du[i])
    /\ DigitVal(du[Len(du) - 1]) < 6

\* schtasks /create: exit code, stdout, stderr and the tasks afterwards.
\* Without /f an existing task of the same name is not replaced.
SchtasksCreate(store, cmd, fault) ==
    IF fault
    THEN [rc |-> 1, stdout |-> "", stderr |-> "ERROR: Access is denied.", store |-> store]
    ELSE IF ~DuAccepted(cmd.du)
    THEN [rc |-> 1, stdout |-> "", stderr |-> "ERROR: Invalid value for /DU option.",
          store |-> store]
    ELSE IF ~cmd.f /\ (\E t \in store : t.tn = cmd.tn)
    THEN [rc |-> 1, stdout |-> "", stderr |-> "ERROR: The task name already exists.",
          store |-> store]
    ELSE [rc |-> 0, stdout |-> "SUCCESS: The scheduled task has successfully been created.",
          stderr |-> "",
          store |-> {t \in store : t.tn # cmd.tn} \cup
                    {[tn |-> cmd.tn, tr |-> cmd.tr, ri |-> Join(cmd.ri),
                      du |-> Join(cmd.du), st |-> Join(cmd.st)]}]

\* ------------------------------------------- get_existing_task_details
\* the details dictionary filled from the lines; a later line of the same
\* prefix overwrites an earlier one.  The empty dictionary stands for None:
\* the program treats both alike.
ParseDetails(stdout) ==
    LET at(key) == {i \in DOMAIN stdout : stdout[i].prefix = LinePrefix(key)}
        last(S) == CHOOSE i \in S : \A j \in S : j <= i
    IN [key \in {k \in DetailKeys : at(k) # {}} |-> stdout[last(at(key))].words[1]]

NoDetails == [key \in {} |-> ""]

get_existing_task_details(q) == IF q.rc # 0 THEN NoDetails ELSE ParseDetails(q.stdout)

\* dict.get(key, default)
Get(d, key, default) == IF key \in DOMAIN d THEN d[key] ELSE default

\* ---------------------------------------------------------- schedule_task
Procs == {1, 2}

NoRequest == [name |-> "", path |-> "", interval |-> 0, duration |-> <<>>, at |-> 0]

NoResult == [rc |-> 0 - 1, stdout |-> "", stderr |-> ""]

\* the message with the caller's interval in place of the snapshot's
ExistsMessage_CallerInterval(r, d) ==
    << "Task '", r.name, "' already exists with the following details:\n",
       "Task Name: ", Get(d, "Task Name", r.name), "\n",
       "Command Path: ", Get(d, "Command Path", r.path), "\n",
       "Interval (minutes): ", Join(IntStr(r.interval)), "\n",
       "Duration (ISO 8601 format): ", Get(d, "Duration", Join(r.duration)) >>

\* the message returned when the task exists (lines 59-63)
ExistsMessage(r, d) ==
    << "Task '", r.name, "' already exists with the following details:\n",
       "Task Name: ", Get(d, "Task Name", r.name), "\n",
       "Command Path: ", Get(d, "Command Path", r.path), "\n",
       "Interval (minutes): ", Get(d, "Interval", Join(IntStr(r.interval))), "\n",
       "Duration (ISO 8601 format): ", Get(d, "Duration", Join(r.duration)) >>

\* the success message without the tool's output
SuccessMessage_NoStdout(r, out) == << "Task '", r.name, "' scheduled successfully.\n" >>

SuccessMessage(r, out) == << "Task '", r.name, "' scheduled successfully.\n", out >>

\* the failure message with the exception's text in place of its stderr
ErrorMessage_NoStderr(r, err) ==
    << "Error scheduling task '", r.name, "':\n", "returned non-zero exit status 1" >>

ErrorMessage(r, err) == << "Error scheduling task '", r.name, "':\n", err >>

\* the command line without /f
CreateCommand_NoForce(r, du, st) ==
    [tool |-> "schtasks", verb |-> "/create", tn |-> r.name, sc |-> "DAILY",
     tr |-> r.path, st |-> st, ri |-> IntStr(r.interval), du |-> du, f |-> FALSE]

\* the command line with the values of /st and /du exchanged
CreateCommand_Swapped(r, du, st) ==
    [tool |-> "schtasks", verb |-> "/create", tn |-> r.name, sc |-> "DAILY",
     tr |-> r.path, st |-> du, ri |-> IntStr(r.interval), du |-> st, f |-> TRUE]

\* the creation command line (lines 70-74)
CreateCommand(r, du, st) ==
    [tool |-> "schtasks", verb |-> "/create", tn |-> r.name, sc |-> "DAILY",
     tr |-> r.path, st |-> st, ri |-> IntStr(r.interval), du |-> du, f |-> TRUE]

TypeOK ==
    /\ installed \in BOOLEAN
    /\ pc \in [Procs -> {"idle", "lookup", "create", "done", "raised"}]
    /\ \A p \in Procs : Len(queries[p]) <= 1
    /\ \A p \in Procs : Len(cmds[p]) <= 1
    /\ calls \in [Procs -> 0..MaxCalls]

Init ==
    /\ tasks = {}
    /\ installed \in BOOLEAN
    /\ pc = [p \in Procs |-> "idle"]
    /\ req = [p \in Procs |-> NoRequest]
    /\ existing = [p \in Procs |-> NoDetails]
    /\ queries = [p \in Procs |-> <<>>]
    /\ cmds = [p \in Procs |-> <<>>]
    /\ result = [p \in Procs |-> NoResult]
    /\ msg = [p \in Procs |-> <<>>]
    /\ readAt = [p \in Procs |-> 0]
    /\ calls = [p \in Procs |-> 0]
    /\ fmtIn = <<>>
    /\ fmtOut = <<>>

\* schedule_task is called at wall-clock time at (seconds)
Call(p, name, path, interval, duration, at) ==
    /\ pc[p] = "idle"
    /\ calls[p] < MaxCalls
    /\ calls' = [calls EXCEPT ![p] = @ + 1]
    /\ pc' = [pc EXCEPT ![p] = "lookup"]
    /\ req' = [req EXCEPT ![p] = [name |-> name, path |-> path, interval |-> interval,
                                  duration |-> duration, at |-> at]]
    /\ existing' = [existing EXCEPT ![p] = NoDetails]
    /\ queries' = [queries EXCEPT ![p] = <<>>]
    /\ cmds' = [cmds EXCEPT ![p] = <<>>]
    /\ result' = [result EXCEPT ![p] = NoResult]
    /\ msg' = [msg EXCEPT ![p] = <<>>]
    /\ readAt' = [readAt EXCEPT ![p] = 0]
    /\ UNCHANGED <<tasks, installed, fmtIn, fmtOut>>

\* lines 56-63: the query; with the tool missing subprocess.run raises
\* FileNotFoundError, which nothing catches
Lookup(p) ==
    /\ pc[p] = "lookup"
    /\ IF ~installed
       THEN /\ pc' = [pc EXCEPT ![p] = "raised"]
            /\ UNCHANGED <<existing, queries, msg>>
       ELSE \E printed \in SUBSET DetailKeys, fault \in BOOLEAN :
              LET q == SchtasksQuery(tasks, req[p].name, printed, fault)
                  d == get_existing_task_details(q)
              IN /\ queries' = [queries EXCEPT ![p] = Append(@, q)]
                 /\ existing' = [existing EXCEPT ![p] = d]
                 /\ IF d # NoDetails
                    THEN /\ msg' = [msg EXCEPT ![p] = ExistsMessage(req[p], d)]
                         /\ pc' = [pc EXCEPT ![p] = "done"]
                    ELSE /\ pc' = [pc EXCEPT ![p] = "create"]
                         /\ UNCHANGED msg
    /\ UNCHANGED <<tasks, installed, req, cmds, result, readAt, calls, fmtIn, fmtOut>>

\* lines 76-79: the command is run and its outcome r turned into the message
Dispatch(p, now, cmd, r) ==
    /\ readAt' = [readAt EXCEPT ![p] = now]
    /\ cmds' = [cmds EXCEPT ![p] = Append(@, cmd)]
    /\ result' = [result EXCEPT ![p] =
                    [rc |-> r.rc, stdout |-> r.stdout, stderr |-> r.stderr]]
    /\ tasks' = r.store
    /\ msg' = [msg EXCEPT ![p] =
                 IF r.rc = 0 THEN SuccessMessage(req[p], r.stdout)
                 ELSE ErrorMessage(req[p], r.stderr)]
    /\ pc' = [pc EXCEPT ![p] = "done"]

\* lines 65-81: parse, format, read the clock, dispatch, return
Create(p) ==
    /\ pc[p] = "create"
    /\ \E d \in {parse_iso_duration(req[p].duration)} :
         IF ~d.ok
         THEN /\ msg' = [msg EXCEPT ![p] = d.error]
              /\ pc' = [pc EXCEPT ![p] = "done"]
              /\ UNCHANGED <<tasks, cmds, result, readAt>>
         ELSE \E elapsed \in 0..MaxElapsed, fault \in BOOLEAN :
                \E cmd \in {CreateCommand(req[p], format_duration_for_schtasks(d.tenths),
                                          start_time(req[p].at + elapsed))} :
                  \E r \in {SchtasksCreate(tasks, cmd, fault)} :
                     Dispatch(p, req[p].at + elapsed, cmd, r)
    /\ UNCHANGED <<installed, req, existing, queries, calls, fmtIn, fmtOut>>

\* the caller has shown the message (or the exception has ended the call)
Return(p) ==
    /\ pc[p] \in {"done", "raised"}
    /\ calls[p] < MaxCalls
    /\ pc' = [pc EXCEPT ![p] = "idle"]
    /\ UNCHANGED <<tasks, installed, req, existing, queries, cmds, result, msg,
                   readAt, calls, fmtIn, fmtOut>>

\* ------------------------------------------------------------- the inputs
Names == {"Backup", "Sync"}

Paths == {"C:\\scripts\\backup.bat", "C:\\scripts\\sync.bat"}

Intervals == {30, 5}

DurationTexts ==
    { <<"P", "T", "3", "H">>,
      <<"P", "T", "9", "0", "M">>,
      <<"3", " ", "h", "o", "u", "r", "s">>,
      <<"P", "1", "M">>,
      <<"-", "P", "T", "1", "H", "3", "0", "M">> }

\* 12:00:00 and 23:59:30
CallTimes == {43200, 86370}

CallAny(p) ==
    \E name \in Names, path \in Paths, interval \in Intervals,
       duration \in DurationTexts, at \in CallTimes :
         Call(p, name, path, interval, duration, at)

\* one invoker: the form or the command line, one call after another
Next == \/ CallAny(1)
        \/ Lookup(1)
        \/ Create(1)
        \/ Return(1)

Spec == Init /\ [][Next]_vars

\* ------------------------------------------------------ reading messages
Contains(m, part) == \E i \in DOMAIN m : m[i] = part

\* the part of message m that follows the part label
Field(m, label) == m[(CHOOSE i \in DOMAIN m : m[i] = label) + 1]

SuccessNotice == "' scheduled successfully.\n"

FailureNotice == "Error scheduling task '"

ParseNotice == "Error parsing duration: "

\* the task the scheduler holds under the name of p's request
Recorded(p) == CHOOSE t \in tasks : t.tn = req[p].name

\* lookup returned a snapshot to p's call, which has returned
FoundExisting(p) == pc[p] = "done" /\ existing[p] # NoDetails

\* the texts of DurationTexts that are ISO-8601 durations of days, hours,
\* minutes and seconds, and those that are not
ParsableTexts == { <<"P", "T", "3", "H">>,
                   <<"P", "T", "9", "0", "M">>,
                   <<"-", "P", "T", "1", "H", "3", "0", "M">> }

RejectedTexts == { <<"3", " ", "h", "o", "u", "r", "s">>, <<"P", "1", "M">> }

\* seconds after midnight of an HH:MM text
HMSeconds(t) == (DigitVal(t[1]) * 10 + DigitVal(t[2])) * 3600
                + (DigitVal(t[4]) * 10 + DigitVal(t[5])) * 60

\* ------------------------------------------------------------------- C1
\* C1 (as claimed): whenever lookup returns a snapshot, whatever fields it
\* contains, the returned message shows the command path, interval and
\* duration recorded in the scheduler, and no creation command is dispatched.
C1_Original ==
    \A p \in Procs : FoundExisting(p) =>
        /\ Field(msg[p], "Command Path: ") = Recorded(p).tr
        /\ Field(msg[p], "Interval (minutes): ") = Recorded(p).ri
        /\ Field(msg[p], "Duration (ISO 8601 format): ") = Recorded(p).du
        /\ cmds[p] = <<>>

\* the value the caller supplied for a key of the details
Supplied(p, key) == CASE key = "Task Name" -> req[p].name
                      [] key = "Command Path" -> req[p].path
                      [] key = "Interval" -> Join(IntStr(req[p].interval))
                      [] OTHER -> Join(req[p].duration)

RecordedValue(p, key) == CASE key = "Task Name" -> Recorded(p).tn
                           [] key = "Command Path" -> Recorded(p).tr
                           [] key = "Interval" -> Recorded(p).ri
                           [] OTHER -> Recorded(p).du

MessageLabel(key) == CASE key = "Task Name" -> "Task Name: "
                       [] key = "Command Path" -> "Command Path: "
                       [] key = "Interval" -> "Interval (minutes): "
                       [] OTHER -> "Duration (ISO 8601 format): "

\* C1 (amended): whenever lookup returns a snapshot, the returned message
\* shows, for each of command path, interval and duration, the value recorded
\* in the scheduler if the snapshot contains that field and the caller-supplied
\* value if it does not, and no creation command is dispatched.
C1_ExistingReported ==
    \A p \in Procs : FoundExisting(p) =>
        /\ \A key \in DetailKeys :
             Field(msg[p], MessageLabel(key)) =
               IF key \in DOMAIN existing[p] THEN RecordedValue(p, key)
               ELSE Supplied(p, key)
        /\ cmds[p] = <<>>
        /\ result[p] = NoResult

\* a snapshot with a command path that differs from the caller's, and without
\* the interval, has been reported
C1_Witness ==
    \E p \in Procs :
        /\ FoundExisting(p)
        /\ "Command Path" \in DOMAIN existing[p]
        /\ existing[p]["Command Path"] # req[p].path
        /\ "Interval" \notin DOMAIN existing[p]
        /\ Recorded(p).ri # Join(IntStr(req[p].interval))

\* ------------------------------------------------------------------- C2
\* C2: a call whose lookup reports the name absent and whose duration parses
\* has issued the query exactly once and the creation command exactly once,
\* and when the creation exits zero the message is the success notice
\* followed by the tool's stdout.
C2_OnceEach ==
    \A p \in Procs :
        (pc[p] = "done" /\ existing[p] = NoDetails /\ req[p].duration \in ParsableTexts) =>
            /\ Len(queries[p]) = 1
            /\ Len(cmds[p]) = 1
            /\ result[p].rc = 0 =>
                 msg[p] = <<"Task '", req[p].name, SuccessNotice, result[p].stdout>>

C2_Witness ==
    \E p \in Procs :
        /\ pc[p] = "done" /\ existing[p] = NoDetails
        /\ req[p].duration \in ParsableTexts
        /\ result[p].rc = 0
        /\ Contains(msg[p], SuccessNotice)

\* ------------------------------------------------------------------- C3
\* C3: every failure of the external tool, the tool being missing included,
\* is caught locally, so no call of create propagates an error to its caller.
C3_NothingPropagates == \A p \in Procs : pc[p] # "raised"

\* ------------------------------------------------------------------- C4
\* C4: whenever the creation command exits non-zero, the returned message
\* holds the failure notice and the tool's stderr verbatim and no success
\* notice.
C4_FailureReported ==
    \A p \in Procs :
        (pc[p] = "done" /\ Len(cmds[p]) = 1 /\ result[p].rc # 0) =>
            /\ msg[p][1] = FailureNotice
            /\ msg[p][Len(msg[p])] = result[p].stderr
            /\ Contains(msg[p], req[p].name)
            /\ ~Contains(msg[p], SuccessNotice)

C4_Witness ==
    \E p \in Procs :
        /\ pc[p] = "done" /\ Len(cmds[p]) = 1 /\ result[p].rc # 0
        /\ result[p].stderr = "ERROR: Access is denied."
        /\ Contains(msg[p], result[p].stderr)

\* ------------------------------------------------------------------- C5
\* C5: when lookup reports the name absent and the duration text is rejected
\* (not ISO-8601, or months or years), the call returns the parse error text,
\* raises nothing, dispatches no creation command and leaves the scheduler's
\* tasks unchanged.
C5_ParseErrorReturned ==
    [][\A p \in Procs :
         (pc[p] = "create" /\ req[p].duration \in RejectedTexts /\ pc'[p] # pc[p]) =>
             /\ pc'[p] = "done"
             /\ msg'[p][1] = ParseNotice
             /\ Len(msg'[p]) >= 2
             /\ ~Contains(msg'[p], SuccessNotice)
             /\ cmds'[p] = <<>>
             /\ result'[p] = NoResult
             /\ tasks' = tasks]_vars

C5_Witness ==
    \E p \in Procs :
        /\ pc[p] = "done" /\ existing[p] = NoDetails
        /\ req[p].duration = <<"P", "1", "M">>
        /\ msg[p] = <<ParseNotice, "Invalid duration format.">>

\* ------------------------------------------------------------------- C8
\* C8: every dispatched creation command carries the caller's name as /tn,
\* DAILY as /sc, the caller's path as /tr, the minute after the clock reading
\* as /st, the caller's interval as /ri, the formatted parsed duration as /du
\* and the flag /f; create("Backup", path, 30, "PT3H") gives /ri 30 and
\* /du 03:00.
C8_CommandFields ==
    \A p \in Procs : Len(cmds[p]) = 1 =>
        LET c == cmds[p][1] IN
        /\ c.tool = "schtasks" /\ c.verb = "/create"
        /\ c.tn = req[p].name
        /\ c.sc = "DAILY"
        /\ c.tr = req[p].path
        /\ Len(c.st) = 5 /\ c.st[3] = ":"
        /\ HMSeconds(c.st) = (((readAt[p] + 60) \div 60) * 60) % DaySeconds
        /\ c.ri = IntStr(req[p].interval)
        /\ c.du = format_duration_for_schtasks(parse_iso_duration(req[p].duration).tenths)
        /\ c.f
        /\ (req[p].interval = 30 /\ req[p].duration = <<"P", "T", "3", "H">>) =>
              (c.ri = <<"3", "0">> /\ c.du = <<"0", "3", ":", "0", "0">>)

C8_Witness ==
    \E p \in Procs :
        /\ Len(cmds[p]) = 1
        /\ req[p].name = "Backup" /\ req[p].interval = 30
        /\ req[p].duration = <<"P", "T", "3", "H">>
        /\ cmds[p][1].du = <<"0", "3", ":", "0", "0">>
        /\ result[p].rc = 0

\* ============================================== the start time (ClockSpec)
ClockMinutes == {0, 30, 59}

\* one call, made at any second of the sampled minutes of any hour
ClockCall(p) ==
    \E h \in 0..23, m \in ClockMinutes, sec \in 0..59 :
        Call(p, "Backup", "C:\\scripts\\backup.bat", 30, <<"P", "T", "3", "H">>,
             h * 3600 + m * 60 + sec)

ClockNext == \/ ClockCall(1)
             \/ Lookup(1)
             \/ Create(1)

ClockSpec == Init /\ [][ClockNext]_vars

\* seconds from instant t to the next time of day st (an HH:MM text), st
\* read as a time of day on or after t
SecondsUntil(st, t) == (HMSeconds(st) - t) % DaySeconds

\* ------------------------------------------------------------------- C7
\* C7 (as claimed): the /st of every dispatched creation command lies between
\* 1 and 2 minutes after the time at which create was called.
C7_Original ==
    \A p \in Procs : Len(cmds[p]) = 1 =>
        /\ SecondsUntil(cmds[p][1].st, req[p].at) >= 60
        /\ SecondsUntil(cmds[p][1].st, req[p].at) <= 120

\* C7 (amended): the /st of every dispatched creation command is the first
\* whole minute strictly after the instant at which create reads the clock
\* (after the lookup has returned): it lies more than 0 and at most 60
\* seconds after that reading, hence after the call, and wraps to 00:00 in
\* the last minute before midnight.
C7_NextWholeMinute ==
    \A p \in Procs : Len(cmds[p]) = 1 =>
        LET st == cmds[p][1].st IN
        /\ Len(st) = 5 /\ st[3] = ":"
        /\ \A i \in {1, 2, 4, 5} : IsDigit(st[i])
        /\ HMSeconds(st) < DaySeconds /\ HMSeconds(st) % 60 = 0
        /\ SecondsUntil(st, readAt[p]) >= 1
        /\ SecondsUntil(st, readAt[p]) <= 60
        /\ SecondsUntil(st, readAt[p]) = 60 - (readAt[p] % 60)
        /\ SecondsUntil(st, req[p].at) >= 1
        /\ SecondsUntil(st, req[p].at) <= 60 + MaxElapsed

\* a call at 23:59:59 whose clock is read in the same second: /st is 00:00,
\* one second later
C7_Witness ==
    \E p \in Procs :
        /\ Len(cmds[p]) = 1
        /\ req[p].at = 86399 /\ readAt[p] = 86399
        /\ cmds[p][1].st = <<"0", "0", ":", "0", "0">>

\* ================================================ two invokers (RaceSpec)
RaceCall(p) ==
    \E path \in Paths :
        Call(p, "Backup", path, 30, <<"P", "T", "3", "H">>, 43200)

RaceNext == \E p \in Procs : \/ RaceCall(p)
                             \/ Lookup(p)
                             \/ Create(p)
                             \/ Return(p)

RaceSpec == Init /\ [][RaceNext]_vars

\* the tool told p's query that the task does not exist
SawAbsent(p) ==
    /\ Len(queries[p]) = 1
    /\ queries[p][1].stderr = "ERROR: The system cannot find the file specified."

\* ------------------------------------------------------------------- C9
\* C9: two interleaved calls for the same absent name can both observe
\* 'absent' and both dispatch a creation command; in every interleaving the
\* scheduler never holds more than one task under the name, holds exactly one
\* once a creation has exited zero, and no creation fails because the other
\* call created the task first.
C9_BenignRace ==
    /\ \A t1 \in tasks, t2 \in tasks : t1.tn = t2.tn => t1 = t2
    /\ \A p \in Procs :
         (pc[p] = "done" /\ Len(cmds[p]) = 1) =>
            /\ result[p].rc = 0 =>
                 Cardinality({t \in tasks : t.tn = req[p].name}) = 1
            /\ result[p].rc # 0 =>
                 /\ result[p].stderr = "ERROR: Access is denied."
                 /\ ~Contains(msg[p], "ERROR: The task name already exists.")

\* both calls saw the task absent, both dispatched, both were told of
\* success, and the scheduler holds the one task of the later dispatch
C9_Witness ==
    /\ \A p \in Procs :
         /\ pc[p] = "done" /\ calls[p] = 1
         /\ SawAbsent(p)
         /\ Len(cmds[p]) = 1 /\ result[p].rc = 0
         /\ Contains(msg[p], SuccessNotice)
    /\ req[1].path # req[2].path
    /\ Cardinality(tasks) = 1
    /\ \E t \in tasks : t.tr = req[2].path

\* ===================================== the duration conversion (FmtSpec)
\* the seconds components of the generated texts, in tenths: none, 30, 59.5
SecondTenths == {0, 300, 595}

\* the text of a number of tenths: digits, with one decimal when needed
TenthsText(x) == IF x % 10 = 0 THEN NatStr(x \div 10)
                 ELSE NatStr(x \div 10) \o <<".">> \o NatStr(x % 10)

\* the ISO-8601 text of the components c; a zero component is written only
\* when c.full asks for the hours and minutes to be written in full
Render(c) ==
    (IF c.negative THEN <<"-">> ELSE <<>>)
    \o <<"P">>
    \o (IF c.days > 0 THEN NatStr(c.days) \o <<"D">> ELSE <<>>)
    \o <<"T">>
    \o (IF c.hours > 0 \/ c.full THEN NatStr(c.hours) \o <<"H">> ELSE <<>>)
    \o (IF c.minutes > 0 \/ c.full THEN NatStr(c.minutes) \o <<"M">> ELSE <<>>)
    \o (IF c.tenths > 0 THEN TenthsText(c.tenths) \o <<"S">> ELSE <<>>)

Components ==
    [negative : BOOLEAN, days : 0..MaxDays, hours : 0..MaxHours,
     minutes : 0..MaxMinutes, tenths : SecondTenths, full : BOOLEAN]

NoComponents == [negative |-> FALSE, days |-> 0, hours |-> 0, minutes |-> 0,
                 tenths |-> 0, full |-> FALSE]

FmtInit ==
    /\ tasks = {}
    /\ installed = TRUE
    /\ pc = [p \in Procs |-> "idle"]
    /\ req = [p \in Procs |-> NoRequest]
    /\ existing = [p \in Procs |-> NoDetails]
    /\ queries = [p \in Procs |-> <<>>]
    /\ cmds = [p \in Procs |-> <<>>]
    /\ result = [p \in Procs |-> NoResult]
    /\ msg = [p \in Procs |-> <<>>]
    /\ readAt = [p \in Procs |-> 0]
    /\ calls = [p \in Procs |-> 0]
    /\ fmtIn \in Components
    /\ fmtOut = <<>>

\* lines 66-67: du_value of the text of fmtIn
Convert ==
    /\ fmtOut = <<>>
    /\ LET d == parse_iso_duration(Render(fmtIn)) IN
       /\ d.ok
       /\ fmtOut' = format_duration_for_schtasks(d.tenths)
    /\ UNCHANGED <<tasks, installed, pc, req, existing, queries, cmds, result, msg,
                   readAt, calls, fmtIn>>

FmtNext == Convert

FmtSpec == FmtInit /\ [][FmtNext]_vars

\* position of the colon of a /du text, 0 if it has none
ColonAt(du) == IF \E i \in DOMAIN du : du[i] = ":"
               THEN CHOOSE i \in DOMAIN du : du[i] = ":" ELSE 0

AllDigits(t) == \A i \in DOMAIN t : IsDigit(t[i])

HourPart(du) == SubSeq(du, 1, ColonAt(du) - 1)

MinutePart(du) == SubSeq(du, ColonAt(du) + 1, Len(du))

\* whole seconds of the components c, sign apart
WholeSeconds(c) == c.days * 86400 + c.hours * 3600 + c.minutes * 60 + c.tenths \div 10

\* whole minutes of the duration that c denotes
WholeMinutes(c) == IF c.negative THEN (0 - WholeSeconds(c)) \div 60
                   ELSE WholeSeconds(c) \div 60

\* ------------------------------------------------------------------- C6
\* C6: for a duration PT{h}H{m}M, 0 <= h, 0 <= m < 60, the /du text is h and
\* m, each zero-padded to two digits, joined by ':'; durations of equal total
\* seconds give the same text, computed from the truncated total seconds
\* (PT90M gives 01:30 as PT1H30M does), and hours are not wrapped at 24
\* (30 hours give 30:00).
C6_HoursMinutes ==
    (fmtOut # <<>> /\ ~fmtIn.negative) =>
        LET total == WholeSeconds(fmtIn)
            hh    == HourPart(fmtOut)
            mm    == MinutePart(fmtOut)
        IN /\ ColonAt(fmtOut) > 0
           /\ AllDigits(hh) /\ AllDigits(mm)
           /\ Len(mm) = 2
           /\ Len(hh) = IF total < 360000 THEN 2 ELSE 3
           /\ DigitsVal(hh, 1, Len(hh) + 1) = total \div 3600
           /\ DigitsVal(mm, 1, 3) = (total % 3600) \div 60
           /\ (fmtIn.days = 0 /\ fmtIn.tenths = 0 /\ fmtIn.minutes < 60) =>
                 /\ DigitsVal(hh, 1, Len(hh) + 1) = fmtIn.hours
                 /\ DigitsVal(mm, 1, 3) = fmtIn.minutes
           /\ (fmtIn.days = 0 /\ fmtIn.hours = 0 /\ fmtIn.minutes = 90 /\ fmtIn.tenths = 0)
                 => fmtOut = <<"0", "1", ":", "3", "0">>
           /\ (fmtIn.days = 0 /\ fmtIn.hours = 1 /\ fmtIn.minutes = 30 /\ fmtIn.tenths = 0)
                 => fmtOut = <<"0", "1", ":", "3", "0">>
           /\ (fmtIn.days = 0 /\ fmtIn.hours = 3 /\ fmtIn.minutes = 0 /\ fmtIn.tenths = 0)
                 => fmtOut = <<"0", "3", ":", "0", "0">>

\* PT30H has been converted to 30:00
C6_Witness ==
    /\ ~fmtIn.negative /\ fmtIn.days = 0 /\ fmtIn.hours = 30
    /\ fmtIn.minutes = 0 /\ fmtIn.tenths = 0 /\ ~fmtIn.full
    /\ fmtOut = <<"3", "0", ":", "0", "0">>

\* ------------------------------------------------------------------ C10
\* C10: for every duration text that parses, negative durations and durations
\* of a day or more included, the /du text has a non-negative hour part of at
\* least two digits and a two-digit minute part in 00..59, and
\* hours*60 + minutes is the duration's whole number of minutes.
C10_DuWellFormed ==
    fmtOut # <<>> =>
        LET hh == HourPart(fmtOut)
            mm == MinutePart(fmtOut)
        IN /\ ColonAt(fmtOut) > 0
           /\ AllDigits(hh) /\ Len(hh) >= 2
           /\ AllDigits(mm) /\ Len(mm) = 2
           /\ DigitsVal(mm, 1, 3) <= 59
           /\ DigitsVal(hh, 1, Len(hh) + 1) * 60 + DigitsVal(mm, 1, 3)
                = WholeMinutes(fmtIn)

====
